---- MODULE Spec2Model ----
(***************************************************************************)
(* A model of the ingest side of the transfer service:                     *)
(*   - processes/consumer/pubsub.go : findOrCreateSubscription and         *)
(*     StartSubscriber (one goroutine per topic, the Receive callback)     *)
(*   - lib/config/config.go         : Config.Validate, Config.TopicConfigs *)
(* The flush orchestrator and processMessage live outside the files at     *)
(* hand; they are modelled from the design document.                       *)
(***************************************************************************)
EXTENDS Integers, Sequences, FiniteSets, TLC

(***************************************************************************)
(* Bounds of the model.                                                    *)
(***************************************************************************)
\* Messages published to the busy topic within the horizon of the model.
MaxMsgs == 2
\* Largest capacity flushChan is given (0: unbuffered).
MaxChanCap == 1
\* Most rows a TableData handed to PrepareTemporaryTable holds.
MaxRows == 2
\* Longest temporary table name, in characters.
MaxNameLen == 7
\* Most InsertRow calls made on a TableData between two flushes.
MaxInserts == 3

\* The topics of settings.Config.Pubsub.TopicConfigs, in configuration order.
TopicList == <<"a", "b">>
Topics == {TopicList[i] : i \in 1..Len(TopicList)}
\* The messages published to a topic within the horizon of the model, numbered
\* in publishing order: the first topic carries the traffic, the others stay
\* idle.
MsgsOf(t) == IF t = TopicList[1] THEN 1..MaxMsgs ELSE {}
Msgs == 1..MaxMsgs
\* Ordering keys a published message may carry (the partition key).
Keys == {"k1", "k2"}
\* processMessage has not returned for the message.
NoRes == [ret |-> FALSE, sf |-> FALSE, err |-> FALSE]

VARIABLES
  \* ---- processes/consumer/pubsub.go
  fatal,        \* log.Fatalf was reached: the process has exited
  cancelled,    \* the root context is done
  mainpc,       \* StartSubscriber: "spawn" | "wait" | "returned"
  spawned,      \* number of goroutines started by the loop of line 71
  gpc,          \* goroutine of a topic: "unspawned" | "start" | "receiving" | "done"
  subName,      \* the subscription a goroutine receives from
  subOrigin,    \* "none" | "found" | "created": how findOrCreateSubscription got the subscription
  brokerSub,    \* broker side: subscription transfer_<topic>: "absent" | "ordered" | "unordered"
  brokerTopic,  \* broker side: the topic exists
  createCalls,  \* number of CreateSubscription calls made for the topic
  okey,         \* ordering key of the i-th message published to a topic
  mst,          \* callback of a message: "pending" | "recv" | "send" | "sleep" | "done"
  res,          \* what processMessage returned for a message: [ret, sf, err], ret FALSE before it returns
  signals,      \* number of values the callback of a message sent on flushChan
  slept,        \* the callback of a message went through the jitter sleep
  cancelSignals, \* per topic, the values sent on flushChan since the context was cancelled
  chanCap,      \* capacity of flushChan (0: unbuffered)
  chanLen,      \* values waiting in flushChan
  \* ---- flush orchestrator and TableData (from the design document)
  orch,         \* "waiting" | "flushing" | "stopped"
  buffered,     \* messages whose row sits in the in-memory TableData
  flushing,     \* messages of the TableData detached by the running flush
  flushed,      \* messages whose row a successful flush has written
  acked,        \* messages acknowledged to the broker
  \* ---- lib/config/config.go
  cfg,          \* the *Config under validation: [nil |-> TRUE] or a record of its fields
  vres,         \* what Validate returned: "pending" before the call, "ok" for nil, else the failed check
  tcres,        \* what TopicConfigs returned: [list, err], err "pending" before the call
  read,         \* readFileToConfig: [file, err]; err "pending" before it returns, "ok" for nil
  \* ---- clients/bigquery/bigquery.go: one call of Store.PrepareTemporaryTable
  bqArgs,       \* its arguments: [createTempTable, tempTableName, nRows]
  bqpc,         \* "idle" | "start" | "cast" | "insert" | "returned"
  bqLog,        \* what the call has done so far: "create" | "cast" | "put" | "insert"
  bqOutcomes,   \* per row reached, what castColVal gives for each column
  bqRows,       \* the rows slice: per cast row, the columns that got a value
  bqTable,      \* [created, rel, loaded]: the temporary table and the rows loaded into it
  bqErr,        \* what the call returned: "pending" before it returns, "ok" for nil
  \* ---- optimization.TableData (from the design document and the staging tests)
  tdMode,       \* "Replication" | "History"
  tdRows,       \* the rows of the batch, in the order their keys came in: [pk, row]
  tdInserts,    \* the InsertRow calls made on the TableData, in order: [pk, row]
  \* ---- the Snowflake stage store (from the design document and the staging tests)
  stOp,         \* the call under way: "none" | "prepare" | "backfill"
  stArgs,       \* its arguments: [createTempTable, cols, col]
  stStep,       \* the steps of the call that were taken
  stExec,       \* the statements handed to the store's Exec, in order
  stErr,        \* what the call returned: "pending" before it returns, "ok" for nil
  \* ---- Column.DefaultValue (from the design document and default_test.go)
  dvCol,        \* the column: [kind, defaultValue]
  dvArgs,       \* the DefaultValueArgs: [nil, Escape, DestKind]
  dvRes         \* what DefaultValue returned: [called, val]

mainVars == <<mainpc, spawned>>
subVars == <<subName, subOrigin, brokerSub, createCalls>>
inputVars == <<brokerTopic, okey, chanCap>>
msgVars == <<mst, res, signals, slept>>
pubsubVars == <<fatal, cancelled, mainVars, gpc, subVars, inputVars, msgVars, cancelSignals,
                chanLen>>
flushVars == <<orch, buffered, flushing, flushed, acked>>
cfgVars == <<cfg, vres, tcres, read>>
bqVars == <<bqArgs, bqpc, bqLog, bqOutcomes, bqRows, bqTable, bqErr>>
tdVars == <<tdMode, tdRows, tdInserts>>
stVars == <<stOp, stArgs, stStep, stExec, stErr>>
\* The destination side.
dvVars == <<dvCol, dvArgs, dvRes>>
destVars == <<bqVars, tdVars, stVars, dvVars>>
\* What the Pub/Sub consumer never touches.
otherVars == <<cfgVars, destVars>>
vars == <<pubsubVars, flushVars, cfgVars, destVars>>

(***************************************************************************)
(* findOrCreateSubscription (pubsub.go:19-49)                              *)
(***************************************************************************)
\* fmt.Sprintf("transfer_%s", topic)
SubscriptionName(topic) == <<"transfer_", topic>>

\* The SubscriptionConfig handed to CreateSubscription: EnableMessageOrdering: true
CreateConfigOrderingOff == FALSE
CreateConfigOrdering == TRUE

\* The outcome of findOrCreateSubscription for a topic, given what the three
\* broker calls answer: the error, how the subscription was obtained, whether
\* one was made, and the number of CreateSubscription calls.
findOrCreateSubscriptionAnyTopic(t, subErr, topicErr, createErr) ==
  IF subErr THEN [err |-> TRUE, origin |-> "none", made |-> FALSE, calls |-> 0]
  ELSE IF brokerSub[t] # "absent"
       THEN [err |-> FALSE, origin |-> "found", made |-> FALSE, calls |-> 0]
  ELSE IF topicErr
       THEN [err |-> TRUE, origin |-> "none", made |-> FALSE, calls |-> 0]
  ELSE IF createErr
       THEN [err |-> TRUE, origin |-> "none", made |-> FALSE, calls |-> 1]
  ELSE [err |-> FALSE, origin |-> "created", made |-> TRUE, calls |-> 1]
findOrCreateSubscription(t, subErr, topicErr, createErr) ==
  IF subErr THEN [err |-> TRUE, origin |-> "none", made |-> FALSE, calls |-> 0]
  ELSE IF brokerSub[t] # "absent"
       THEN [err |-> FALSE, origin |-> "found", made |-> FALSE, calls |-> 0]
  ELSE IF ~brokerTopic[t] \/ topicErr
       THEN [err |-> TRUE, origin |-> "none", made |-> FALSE, calls |-> 0]
  ELSE IF createErr
       THEN [err |-> TRUE, origin |-> "none", made |-> FALSE, calls |-> 1]
  ELSE [err |-> FALSE, origin |-> "created", made |-> TRUE, calls |-> 1]

(***************************************************************************)
(* StartSubscriber (pubsub.go:51-114)                                      *)
(***************************************************************************)
\* log.Fatalf ends the process: goroutines, flushChan and the TableData are gone;
\* what the broker holds stays (subscriptions, acknowledgements), and every
\* message not acknowledged is back at the broker.
Exit ==
  /\ fatal' = TRUE
  /\ cancelled' = FALSE
  /\ mainpc' = "exited"
  /\ spawned' = 0
  /\ gpc' = [t \in Topics |-> "exited"]
  /\ mst' = [t \in Topics |-> [m \in MsgsOf(t) |->
               IF <<t, m>> \in acked THEN "done" ELSE "pending"]]
  /\ res' = [t \in Topics |-> [m \in MsgsOf(t) |-> NoRes]]
  /\ signals' = [t \in Topics |-> [m \in MsgsOf(t) |-> 0]]
  /\ slept' = [t \in Topics |-> [m \in MsgsOf(t) |-> FALSE]]
  /\ cancelSignals' = [t \in Topics |-> 0]
  /\ chanLen' = 0
  /\ orch' = "stopped"
  /\ buffered' = {}
  /\ flushing' = {}
  /\ UNCHANGED <<inputVars, flushed, acked, otherVars>>

\* lines 54-58: the Pub/Sub client cannot be created: log.Fatalf.
NewClientFails ==
  /\ ~fatal /\ mainpc = "spawn"
  /\ Exit
  /\ UNCHANGED subVars

\* lines 70-111: for _, topicConfig := range ...TopicConfigs { wg.Add(1); go func(...) }
\* The loop starts one goroutine per entry of the list and does nothing else; a
\* goroutine that has not run yet is the same whether or not the loop has gone
\* on, so the loop is one step.
Spawn ==
  /\ ~fatal /\ mainpc = "spawn"
  /\ gpc' = [t \in Topics |->
               IF \E i \in 1..Len(TopicList) : TopicList[i] = t THEN "start" ELSE gpc[t]]
  /\ spawned' = spawned + Len(TopicList)
  /\ mainpc' = "wait"
  /\ UNCHANGED <<fatal, cancelled, subVars, inputVars, msgVars, cancelSignals, chanLen,
                 flushVars, otherVars>>

\* lines 75-79: the goroutine names its subscription and finds or creates it;
\* an error ends the process (log.Fatalf).
FindOrCreate(t) ==
  /\ ~fatal /\ gpc[t] = "start"
  /\ \E subErr \in BOOLEAN, topicErr \in BOOLEAN, createErr \in BOOLEAN :
       LET r == findOrCreateSubscription(t, subErr, topicErr, createErr) IN
         /\ createCalls' = [createCalls EXCEPT ![t] = @ + r.calls]
         /\ brokerSub' = IF r.made
                           THEN [brokerSub EXCEPT ![t] =
                                   IF CreateConfigOrdering THEN "ordered" ELSE "unordered"]
                           ELSE brokerSub
         /\ subOrigin' = [subOrigin EXCEPT ![t] = r.origin]
         /\ subName' = [subName EXCEPT ![t] = SubscriptionName(t)]
         /\ IF r.err
              THEN Exit
              ELSE /\ gpc' = [gpc EXCEPT ![t] = "receiving"]
                   /\ UNCHANGED <<fatal, cancelled, mainVars, inputVars, msgVars,
                                  cancelSignals, chanLen, flushVars, otherVars>>

\* The callbacks of a topic that have been invoked and have not returned.
InFlight(t) == {m \in MsgsOf(t) : mst[t][m] \in {"recv", "send", "sleep"}}

\* sub.Receive(ctx, ...) (line 81) hands out messages while the goroutine's
\* context is live.
ReceiveTakes(t) == ~cancelled /\ gpc[t] = "receiving"

\* sub.Receive (line 81) with the default ReceiveSettings: callbacks run
\* concurrently; a subscription with message ordering hands out the messages of
\* one ordering key one at a time, in publishing order.
Deliverable(t, m) ==
  /\ mst[t][m] = "pending"
  /\ brokerSub[t] = "ordered" =>
       \A n \in MsgsOf(t) : (n < m /\ okey[n] = okey[m]) => mst[t][n] = "done"

\* lines 81-89: Receive invokes the callback for a message.
Deliver(t, m) ==
  /\ ~fatal /\ ReceiveTakes(t)
  /\ Deliverable(t, m)
  /\ mst' = [mst EXCEPT ![t][m] = "recv"]
  /\ UNCHANGED <<fatal, cancelled, mainVars, gpc, subVars, inputVars, res, signals, slept,
                 cancelSignals, chanLen, flushVars, otherVars>>

\* The messages the callback acknowledges itself: it calls neither Ack nor Nack.
CallbackAcksErrors(t, m, err) == IF err THEN {<<t, m>>} ELSE {}
CallbackAcks(t, m, err) == {}

\* line 96: if shouldFlush { ... } -- where the callback goes after processMessage.
AfterProcessOrError(sf, err) == IF sf \/ err THEN "send" ELSE "done"
AfterProcess(sf, err) == IF sf THEN "send" ELSE "done"

\* What processMessage (ingest) may return, (shouldFlush, err): a message that
\* fails to parse is given up before the TableData is asked whether to flush.
ProcessMessageReturns ==
  {r \in [sf : BOOLEAN, err : BOOLEAN] : ~(r.sf /\ r.err)}

\* processMessage (ingest) puts the row of a parsed message into the TableData.
Ingested(t, m, r) == IF r.err THEN buffered ELSE buffered \cup {<<t, m>>}

\* lines 91-96: processMessage, the warning on error, and the test of shouldFlush.
Process(t, m) ==
  /\ ~fatal /\ mst[t][m] = "recv"
  /\ \E r \in ProcessMessageReturns :
       /\ res' = [res EXCEPT ![t][m] = [ret |-> TRUE, sf |-> r.sf, err |-> r.err]]
       /\ buffered' = Ingested(t, m, r)
       /\ acked' = acked \cup CallbackAcks(t, m, r.err)
       /\ mst' = [mst EXCEPT ![t][m] = AfterProcess(r.sf, r.err)]
  /\ UNCHANGED <<fatal, cancelled, mainVars, gpc, subVars, inputVars, signals, slept,
                 cancelSignals, chanLen, orch, flushing, flushed, otherVars>>

\* flushChan <- true completes when the channel has room or, unbuffered, when
\* the orchestrator is at its receive.
ChanAccepts ==
  IF chanCap = 0 THEN orch = "waiting" ELSE chanLen < chanCap

\* Whether the callback of a message can take its next step: processMessage
\* and time.Sleep go on by themselves, the send waits for the channel.
CallbackCanStep(t, m) ==
  CASE mst[t][m] = "recv" -> TRUE
    [] mst[t][m] = "send" -> ChanAccepts
    [] mst[t][m] = "sleep" -> TRUE
    [] OTHER -> FALSE

\* The orchestrator detaches the TableData and starts to flush it.
StartFlush ==
  /\ orch' = "flushing"
  /\ flushing' = buffered
  /\ buffered' = {}

\* line 97: flushChan <- true
Send(t, m) ==
  /\ ~fatal /\ mst[t][m] = "send"
  /\ CallbackCanStep(t, m)
  /\ signals' = [signals EXCEPT ![t][m] = @ + 1]
  /\ cancelSignals' = [cancelSignals EXCEPT ![t] = IF cancelled THEN @ + 1 ELSE @]
  /\ mst' = [mst EXCEPT ![t][m] = "sleep"]
  /\ IF chanCap = 0
       THEN StartFlush /\ UNCHANGED chanLen
       ELSE chanLen' = chanLen + 1 /\ UNCHANGED <<orch, buffered, flushing>>
  /\ UNCHANGED <<fatal, cancelled, mainVars, gpc, subVars, inputVars, res, slept,
                 flushed, acked, otherVars>>

\* lines 101-103: the jitter sleep, after which the callback returns.
Sleep(t, m) ==
  /\ ~fatal /\ mst[t][m] = "sleep"
  /\ CallbackCanStep(t, m)
  /\ slept' = [slept EXCEPT ![t][m] = TRUE]
  /\ mst' = [mst EXCEPT ![t][m] = "done"]
  /\ UNCHANGED <<fatal, cancelled, mainVars, gpc, subVars, inputVars, res, signals,
                 cancelSignals, chanLen, flushVars, otherVars>>

\* Receive returns nil once the context is done and every callback has returned
\* (lines 104-109): the goroutine ends, wg.Done.
ReceiveReturns(t) ==
  /\ ~fatal /\ cancelled /\ gpc[t] = "receiving"
  /\ InFlight(t) = {}
  /\ gpc' = [gpc EXCEPT ![t] = "done"]
  /\ UNCHANGED <<fatal, cancelled, mainVars, subVars, inputVars, msgVars, cancelSignals,
                 chanLen, flushVars, otherVars>>

\* Receive returns an error (lines 106-108): log.Fatalf.
ReceiveFails(t) ==
  /\ ~fatal /\ gpc[t] = "receiving"
  /\ InFlight(t) = {}
  /\ Exit
  /\ UNCHANGED subVars

\* line 113: wg.Wait() returns when every goroutine has called wg.Done.
WaitReturnsAny ==
  /\ ~fatal /\ mainpc = "wait"
  /\ \E t \in Topics : gpc[t] = "done"
  /\ mainpc' = "returned"
  /\ UNCHANGED <<fatal, cancelled, spawned, gpc, subVars, inputVars, msgVars,
                 cancelSignals, chanLen, flushVars, otherVars>>
WaitReturns ==
  /\ ~fatal /\ mainpc = "wait"
  /\ \A t \in Topics : gpc[t] = "done"
  /\ mainpc' = "returned"
  /\ UNCHANGED <<fatal, cancelled, spawned, gpc, subVars, inputVars, msgVars,
                 cancelSignals, chanLen, flushVars, otherVars>>

\* The root context is cancelled.
Cancel ==
  /\ ~fatal /\ ~cancelled
  /\ cancelled' = TRUE
  /\ UNCHANGED <<fatal, mainVars, gpc, subVars, inputVars, msgVars, cancelSignals,
                 chanLen, flushVars, otherVars>>

(***************************************************************************)
(* The flush orchestrator (design document, sections 4.6 and 5)            *)
(***************************************************************************)
\* A value is received from flushChan: a flush starts.
OrchReceive ==
  /\ ~fatal /\ orch = "waiting" /\ chanLen > 0
  /\ chanLen' = chanLen - 1
  /\ StartFlush
  /\ UNCHANGED <<fatal, cancelled, mainVars, gpc, subVars, inputVars, msgVars,
                 cancelSignals, flushed, acked, otherVars>>

\* The periodic ticker fires: a flush of the dirty TableData starts.
OrchTick ==
  /\ ~fatal /\ orch = "waiting" /\ buffered # {}
  /\ StartFlush
  /\ UNCHANGED <<pubsubVars, flushed, acked, otherVars>>

\* The flush succeeds: the retained messages are acknowledged.
FlushOk ==
  /\ ~fatal /\ orch = "flushing"
  /\ flushed' = flushed \cup flushing
  /\ acked' = acked \cup flushing
  /\ flushing' = {}
  /\ orch' = "waiting"
  /\ UNCHANGED <<pubsubVars, buffered, otherVars>>

\* The flush fails: the rows are merged back, nothing is acknowledged.
FlushErr ==
  /\ ~fatal /\ orch = "flushing"
  /\ buffered' = buffered \cup flushing
  /\ flushing' = {}
  /\ orch' = "waiting"
  /\ UNCHANGED <<pubsubVars, flushed, acked, otherVars>>

\* After cancellation the orchestrator stops between two flushes.
OrchStop ==
  /\ ~fatal /\ cancelled /\ orch = "waiting"
  /\ orch' = "stopped"
  /\ UNCHANGED <<pubsubVars, buffered, flushing, flushed, acked, otherVars>>

(***************************************************************************)
(* lib/config/config.go                                                    *)
(***************************************************************************)
defaultFlushTimeSeconds == 10
defaultFlushSizeKb == 25 * 1024
flushIntervalSecondsStart == 5
flushIntervalSecondsEnd == 6 * 60 * 60
bufferPoolSizeStart == 5
bufferPoolSizeEnd == 30000

\* constants.Kafka, constants.PubSub
QueueKafka == "kafka"
QueuePubSub == "pubsub"
\* constants.Redshift
OutputRedshift == "redshift"

\* numbers.BetweenEq(start, end, number)
BetweenEq(start, end, number) == number >= start /\ number <= end

\* constants.IsValidDestination
IsValidDestination(output) ==
  output \in {"snowflake", "bigquery", "redshift", "s3", "test"}

\* stringutil.Empty(...) and array.Empty([]string{...}): some string is empty.
AnyEmpty(strs) == \E i \in 1..Len(strs) : strs[i] = ""

\* BufferRows is a uint (64 bits): [high, low] stands for high * 2^63 + low.
\* int(c.BufferRows) keeps the bits: with the top bit set the int is
\* low - 2^63, negative whatever low is. IntGreaterThanUint(n, u) is
\* n > int(u) for a small n >= 0.
IntGreaterThanUint(n, u) == u.high = 1 \/ n > u.low

\* Validate, line 217
FlushSizeInvalid(c) == c.FlushSizeKb <= 0

\* Validate, line 221
FlushIntervalInvalidExclusive(c) ==
  \/ c.FlushIntervalSeconds <= flushIntervalSecondsStart
  \/ c.FlushIntervalSeconds >= flushIntervalSecondsEnd
FlushIntervalInvalid(c) ==
  ~BetweenEq(flushIntervalSecondsStart, flushIntervalSecondsEnd, c.FlushIntervalSeconds)

\* Validate, line 226
BufferRowsInvalidRange(c) ==
  \/ IntGreaterThanUint(bufferPoolSizeStart, c.BufferRows)
  \/ c.BufferRows.low > bufferPoolSizeEnd
BufferRowsInvalid(c) == IntGreaterThanUint(bufferPoolSizeStart, c.BufferRows)

\* ValidateRedshift (lines 188-207): "ok" or the failed check.
ValidateRedshift(c) ==
  IF c.Output # OutputRedshift THEN "redshiftOutput"
  ELSE IF c.Redshift.nil THEN "redshiftNil"
  ELSE IF AnyEmpty(c.Redshift.strs) THEN "redshiftEmpty"
  ELSE IF c.Redshift.Port <= 0 THEN "redshiftPort"
  ELSE "ok"

\* A nil pointer, a nil slice.
Nil == [nil |-> TRUE]

\* Validate, lines 241-256: "ok" or the failed check.
ValidateKafka(c) ==
  IF c.Kafka.nil \/ Len(c.Kafka.TopicConfigs) = 0 THEN "kafkaNoTopicConfigs"
  ELSE IF \E i \in 1..Len(c.Kafka.TopicConfigs) : ~c.Kafka.TopicConfigs[i].valid
       THEN "kafkaTopicConfigInvalid"
  ELSE IF AnyEmpty(c.Kafka.settings) THEN "kafkaSettingsInvalid"
  ELSE "ok"

\* Validate, lines 258-272: "ok" or the failed check.
ValidatePubsub(c) ==
  IF c.Pubsub.nil \/ Len(c.Pubsub.TopicConfigs) = 0 THEN "pubsubNoTopicConfigs"
  ELSE IF \E i \in 1..Len(c.Pubsub.TopicConfigs) : ~c.Pubsub.TopicConfigs[i].valid
       THEN "pubsubTopicConfigInvalid"
  ELSE IF AnyEmpty(c.Pubsub.settings) THEN "pubsubSettingsInvalid"
  ELSE "ok"

\* Validate, lines 241-272: the block of the configured queue is checked, the
\* kafka block for kafka, the pubsub block for pubsub.
ValidateQueueKnown(c) ==
  IF c.Queue = QueueKafka THEN ValidateKafka(c)
  ELSE IF c.Queue = QueuePubSub THEN ValidatePubsub(c)
  ELSE "queue"
ValidateQueue(c) ==
  IF c.Queue = QueueKafka THEN ValidateKafka(c)
  ELSE IF c.Queue = QueuePubSub THEN ValidatePubsub(c)
  ELSE "ok"

\* Config.Validate (lines 212-275): "ok" for a nil error, else the failed check.
Validate(c) ==
  IF c.nil THEN "configNil"
  ELSE IF FlushSizeInvalid(c) THEN "flushSize"
  ELSE IF FlushIntervalInvalid(c) THEN "flushInterval"
  ELSE IF BufferRowsInvalid(c) THEN "bufferRows"
  ELSE IF ~IsValidDestination(c.Output) THEN "output"
  ELSE IF c.Output = OutputRedshift /\ ValidateRedshift(c) # "ok" THEN ValidateRedshift(c)
  ELSE ValidateQueue(c)

\* A non-nil slice of topic configs.
Slice(tcs) == [nil |-> FALSE, items |-> tcs]

\* Config.TopicConfigs (lines 103-116): [list, err]; err "ok" for a nil error.
TopicConfigsNilNil(c) ==
  IF Validate(c) # "ok" THEN [list |-> Nil, err |-> Validate(c)]
  ELSE IF c.Queue = QueueKafka THEN [list |-> Slice(c.Kafka.TopicConfigs), err |-> "ok"]
  ELSE IF c.Queue = QueuePubSub THEN [list |-> Slice(c.Pubsub.TopicConfigs), err |-> "ok"]
  ELSE [list |-> Nil, err |-> "ok"]
TopicConfigs(c) ==
  IF Validate(c) # "ok" THEN [list |-> Nil, err |-> Validate(c)]
  ELSE IF c.Queue = QueueKafka THEN [list |-> Slice(c.Kafka.TopicConfigs), err |-> "ok"]
  ELSE IF c.Queue = QueuePubSub THEN [list |-> Slice(c.Pubsub.TopicConfigs), err |-> "ok"]
  ELSE [list |-> Nil, err |-> "unsupportedQueue"]

\* c.Validate() is called.
CallValidate ==
  /\ vres = "pending"
  /\ vres' = Validate(cfg)
  /\ UNCHANGED <<cfg, tcres, read, pubsubVars, flushVars, destVars>>

\* c.TopicConfigs() is called.
CallTopicConfigs ==
  /\ tcres.err = "pending"
  /\ tcres' = TopicConfigs(cfg)
  /\ UNCHANGED <<cfg, vres, read, pubsubVars, flushVars, destVars>>

\* BufferRows == 0 (line 177), on the two parts of the uint.
UintZero(u) == u.high = 0 /\ u.low = 0
\* A small number as a uint.
Uint(n) == [high |-> 0, low |-> n]

\* readFileToConfig, lines 168-183: the defaults for what the file left at
\* its zero value.
WithDefaultsNoBufferRows(c) ==
  [c EXCEPT
     !.Queue = IF @ = "" THEN QueueKafka ELSE @,
     !.FlushIntervalSeconds = IF @ = 0 THEN defaultFlushTimeSeconds ELSE @,
     !.FlushSizeKb = IF @ = 0 THEN defaultFlushSizeKb ELSE @]
WithDefaults(c) ==
  [c EXCEPT
     !.Queue = IF @ = "" THEN QueueKafka ELSE @,
     !.FlushIntervalSeconds = IF @ = 0 THEN defaultFlushTimeSeconds ELSE @,
     !.BufferRows = IF UintZero(@) THEN Uint(bufferPoolSizeEnd) ELSE @,
     !.FlushSizeKb = IF @ = 0 THEN defaultFlushSizeKb ELSE @]

\* readFileToConfig (lines 148-185): [config, err]; os.Open, io.ReadAll or
\* yaml.Unmarshal fails, or the parsed config gets its defaults.
readFileToConfig(f) ==
  IF f.err # "ok" THEN [config |-> Nil, err |-> f.err]
  ELSE [config |-> WithDefaults(f.parsed), err |-> "ok"]

\* readFileToConfig(pathToConfig) is called; the config it returns goes to
\* Validate.
CallReadFileToConfig ==
  /\ read.err = "pending"
  /\ LET r == readFileToConfig(read.file) IN
       /\ cfg' = r.config
       /\ read' = [read EXCEPT !.err = r.err]
       /\ vres' = IF r.err = "ok" THEN "pending" ELSE vres
  /\ UNCHANGED <<tcres, pubsubVars, flushVars, destVars>>

\* The files the model reads: one that cannot be opened, read or parsed, and
\* the files whose flush rules and queue are absent (zero) or given.
FileQueueBlockValues ==
  {Nil, [nil |-> FALSE, TopicConfigs |-> <<[valid |-> TRUE]>>, settings |-> <<"id", "set">>]}
ParsedConfigs ==
  [nil : {FALSE}, FlushSizeKb : {-1, 0, 1, defaultFlushSizeKb},
   FlushIntervalSeconds : {0, 4, defaultFlushTimeSeconds, 21601},
   BufferRows : {Uint(0), Uint(4), Uint(5), Uint(30001), [high |-> 1, low |-> 0]},
   Output : {"snowflake"}, Queue : {"", "kafka", "pubsub", "rabbitmq"},
   Redshift : {Nil}, Kafka : FileQueueBlockValues, Pubsub : FileQueueBlockValues]
Files ==
  {[err |-> e, parsed |-> Nil] : e \in {"open", "read", "yaml"}}
    \cup {[err |-> "ok", parsed |-> c] : c \in ParsedConfigs}

\* No file is read.
ReadIdle == read = [file |-> [err |-> "none", parsed |-> Nil], err |-> "done"]

\* The configurations the model validates.
FlushSizeValues == {-1, 0, 1}
FlushIntervalValues == {4, 5, 21600, 21601}
BufferRowsValues ==
  {[high |-> 0, low |-> n] : n \in {4, 5, 30000, 30001}} \cup {[high |-> 1, low |-> 30000]}
OutputValues == {"snowflake", "redshift", "mysql"}
QueueValues == {"kafka", "pubsub", "", "rabbitmq"}
RedshiftValues ==
  {Nil} \cup
  {[nil |-> FALSE, strs |-> <<h, "db", "user", "pw", "bucket", "creds">>, Port |-> p] :
     h \in {"", "host"}, p \in {0, 5439}}
TopicConfigValues == {<<>>, <<[valid |-> TRUE]>>, <<[valid |-> TRUE], [valid |-> FALSE]>>}
QueueBlockValues ==
  {Nil} \cup
  {[nil |-> FALSE, TopicConfigs |-> tcs, settings |-> <<id, "set">>] :
     tcs \in TopicConfigValues, id \in {"", "id"}}
Configs ==
  {Nil} \cup
  [nil : {FALSE}, FlushSizeKb : FlushSizeValues, FlushIntervalSeconds : FlushIntervalValues,
   BufferRows : BufferRowsValues, Output : OutputValues, Queue : QueueValues,
   Redshift : RedshiftValues, Kafka : QueueBlockValues, Pubsub : QueueBlockValues]

(***************************************************************************)
(* clients/bigquery/bigquery.go                                            *)
(***************************************************************************)
\* The characters of a table name.
NameChars == {"t", "."}
\* The names of at most n characters.
NamesUpTo(n) == UNION {[1..k -> NameChars] : k \in 0..n}

\* strings.Split(s, "."): the parts between the dots, at least one.
RECURSIVE Split(_)
Split(s) ==
  IF \A i \in 1..Len(s) : s[i] # "." THEN <<s>>
  ELSE LET i == CHOOSE j \in 1..Len(s) : s[j] = "." /\ \A k \in 1..(j - 1) : s[k] # "."
       IN <<SubSeq(s, 1, i - 1)>> \o Split(SubSeq(s, i + 1, Len(s)))

\* strings.Join(parts, ".")
RECURSIVE Join(_)
Join(parts) ==
  IF Len(parts) = 0 THEN <<>>
  ELSE IF Len(parts) = 1 THEN parts[1]
  ELSE parts[1] \o <<".">> \o Join(Tail(parts))

\* tableRelName (lines 123-130): [name, err].
tableRelNameFromSecond(fqName) ==
  LET fqNameParts == Split(fqName) IN
    IF Len(fqNameParts) < 2 THEN [name |-> <<>>, err |-> TRUE]
    ELSE [name |-> Join(SubSeq(fqNameParts, 2, Len(fqNameParts))), err |-> FALSE]
tableRelName(fqName) ==
  LET fqNameParts == Split(fqName) IN
    IF Len(fqNameParts) < 3 THEN [name |-> <<>>, err |-> TRUE]
    ELSE [name |-> Join(SubSeq(fqNameParts, 3, Len(fqNameParts))), err |-> FALSE]

\* The columns GetColumnsToUpdate gives, in order.
Cols == <<"c1", "c2">>
\* What castColVal gives for a value: a value, a nil value, an error.
CastResults == {"val", "nil", "err"}
\* What castColVal gives for each column of a row.
RowOutcomes == [1..Len(Cols) -> CastResults]

\* line 40: if createTempTable
NeedsCreateAlways(args) == TRUE
NeedsCreate(args) == args.createTempTable

\* lines 64-67: the cast of some column of the row fails.
RowCastErrorIgnored(outcome) == FALSE
RowCastError(outcome) == \E c \in 1..Len(Cols) : outcome[c] = "err"

\* The castColVal calls made for a row: up to the first that fails.
CastCalls(outcome) ==
  IF RowCastError(outcome)
    THEN CHOOSE c \in 1..Len(Cols) : outcome[c] = "err" /\ \A d \in 1..(c - 1) : outcome[d] # "err"
    ELSE Len(Cols)

\* lines 61-74: the data of a row, the columns whose cast value is not nil.
RowData(outcome) == {Cols[c] : c \in {d \in 1..Len(Cols) : outcome[d] = "val"}}

\* n log entries of one kind.
Times(op, n) == [i \in 1..n |-> op]

\* PrepareTemporaryTable returns.
BQReturn(err) ==
  /\ bqErr' = err
  /\ bqpc' = "returned"

\* lines 40-55: the temporary table is created through AlterTable.
BQCreateTempTable ==
  /\ bqpc = "start" /\ NeedsCreate(bqArgs)
  /\ bqLog' = Append(bqLog, "create")
  /\ \E failed \in BOOLEAN :
       IF failed
         THEN BQReturn("createFailed") /\ UNCHANGED bqTable
         ELSE /\ bqTable' = [bqTable EXCEPT !.created = TRUE]
              /\ bqpc' = "cast" /\ UNCHANGED bqErr
  /\ UNCHANGED <<bqArgs, bqOutcomes, bqRows, tdVars, stVars, dvVars, pubsubVars, flushVars, cfgVars>>

\* line 40, createTempTable false: straight to the cast.
BQNoCreate ==
  /\ bqpc = "start" /\ ~NeedsCreate(bqArgs)
  /\ bqpc' = "cast"
  /\ UNCHANGED <<bqArgs, bqLog, bqOutcomes, bqRows, bqTable, bqErr, tdVars,
                 stVars, dvVars, pubsubVars, flushVars, cfgVars>>

\* lines 60-75: one turn of the loop over tableData.Rows().
BQCastRow ==
  /\ bqpc = "cast" /\ Len(bqRows) < bqArgs.nRows
  /\ \E outcome \in RowOutcomes :
       /\ bqOutcomes' = Append(bqOutcomes, outcome)
       /\ bqLog' = bqLog \o Times("cast", CastCalls(outcome))
       /\ IF RowCastError(outcome)
            THEN BQReturn("castFailed") /\ UNCHANGED bqRows
            ELSE /\ bqRows' = Append(bqRows, RowData(outcome))
                 /\ UNCHANGED <<bqpc, bqErr>>
  /\ UNCHANGED <<bqArgs, bqTable, tdVars, stVars, dvVars, pubsubVars, flushVars, cfgVars>>

\* lines 78, 132-142: putTable is called; it takes the table's name apart.
BQPutTable ==
  /\ bqpc = "cast" /\ Len(bqRows) = bqArgs.nRows
  /\ bqLog' = Append(bqLog, "put")
  /\ LET r == tableRelName(bqArgs.tempTableName) IN
       IF r.err
         THEN BQReturn("tableName") /\ UNCHANGED bqTable
         ELSE /\ bqTable' = [bqTable EXCEPT !.rel = r.name]
              /\ bqpc' = "insert" /\ UNCHANGED bqErr
  /\ UNCHANGED <<bqArgs, bqOutcomes, bqRows, tdVars, stVars, dvVars, pubsubVars, flushVars, cfgVars>>

\* lines 143-147: inserter.Put of the next chunk of the batch.
BQInsertChunk ==
  /\ bqpc = "insert" /\ Len(bqTable.loaded) < Len(bqRows)
  /\ bqLog' = Append(bqLog, "insert")
  /\ \E failed \in BOOLEAN, n \in 1..(Len(bqRows) - Len(bqTable.loaded)) :
       IF failed
         THEN BQReturn("insertFailed") /\ UNCHANGED bqTable
         ELSE /\ bqTable' = [bqTable EXCEPT !.loaded = SubSeq(bqRows, 1, Len(@) + n)]
              /\ UNCHANGED <<bqpc, bqErr>>
  /\ UNCHANGED <<bqArgs, bqOutcomes, bqRows, tdVars, stVars, dvVars, pubsubVars, flushVars, cfgVars>>

\* line 149: the batch is through, putTable and PrepareTemporaryTable return nil.
BQDone ==
  /\ bqpc = "insert" /\ Len(bqTable.loaded) = Len(bqRows)
  /\ BQReturn("ok")
  /\ UNCHANGED <<bqArgs, bqLog, bqOutcomes, bqRows, bqTable, tdVars, stVars, dvVars, pubsubVars,
                 flushVars, cfgVars>>

\* The temporary table before the call.
NoTable == [created |-> FALSE, rel |-> <<>>, loaded |-> <<>>]

\* PrepareTemporaryTable is not running.
BqIdle ==
  /\ bqArgs = [createTempTable |-> FALSE, tempTableName |-> <<>>, nRows |-> 0]
  /\ bqpc = "idle" /\ bqLog = <<>> /\ bqOutcomes = <<>> /\ bqRows = <<>>
  /\ bqTable = NoTable /\ bqErr = "pending"

\* PrepareTemporaryTable is called.
BqInit ==
  /\ bqArgs \in [createTempTable : BOOLEAN, tempTableName : NamesUpTo(MaxNameLen),
                 nRows : 0..MaxRows]
  /\ bqpc = "start" /\ bqLog = <<>> /\ bqOutcomes = <<>> /\ bqRows = <<>>
  /\ bqTable = NoTable /\ bqErr = "pending"

(***************************************************************************)
(* optimization.TableData (design document, sections 3 and 4.3)            *)
(***************************************************************************)
\* Primary keys and row contents of the events of a batch.
PKs == {"k1", "k2"}
RowValues == {"v1", "v2"}
\* A row as InsertRow gets it: its contents and the delete flag.
RowsIn == [val : RowValues, deleted : BOOLEAN]

\* The place of a key among the rows, 0 when the key is not there.
RowIndex(rows, pk) ==
  IF \E i \in 1..Len(rows) : rows[i].pk = pk
    THEN CHOOSE i \in 1..Len(rows) : rows[i].pk = pk
    ELSE 0

\* InsertRow: in Replication mode the row of a key that is already there is
\* overwritten; a new key, and every row in History mode, is appended.
RowsAfterInsertAppend(mode, rows, pk, row) == Append(rows, [pk |-> pk, row |-> row])
RowsAfterInsert(mode, rows, pk, row) ==
  IF mode = "Replication" /\ RowIndex(rows, pk) # 0
    THEN [rows EXCEPT ![RowIndex(rows, pk)] = [pk |-> pk, row |-> row]]
    ELSE Append(rows, [pk |-> pk, row |-> row])

\* TableData.NumberOfRows
NumberOfRows == Len(tdRows)

\* td.InsertRow(pk, rowData, delete)
TDInsertRow ==
  /\ tdMode \in {"Replication", "History"}
  /\ Len(tdInserts) < MaxInserts
  /\ \E pk \in PKs, row \in RowsIn :
       /\ tdRows' = RowsAfterInsert(tdMode, tdRows, pk, row)
       /\ tdInserts' = Append(tdInserts, [pk |-> pk, row |-> row])
  /\ UNCHANGED <<tdMode, bqVars, stVars, dvVars, pubsubVars, flushVars, cfgVars>>

\* No TableData is under test.
TdIdle == tdMode = "none" /\ tdRows = <<>> /\ tdInserts = <<>>

\* optimization.NewTableData(cols, mode, ...): an empty batch.
TdInit == tdMode \in {"Replication", "History"} /\ tdRows = <<>> /\ tdInserts = <<>>

(***************************************************************************)
(* The Snowflake stage store: PrepareTemporaryTable and                    *)
(* shared.BackfillColumn (design document, sections 4.7 and 8; staging     *)
(* tests)                                                                  *)
(***************************************************************************)
\* The in-memory columns of the tables handed to PrepareTemporaryTable.
ColumnNames == {"user_id", "first_name", "dusty"}
\* The column lists: one, two or three of the names, in any order.
ColumnLists ==
  {cols \in UNION {[1..k -> ColumnNames] : k \in 1..Cardinality(ColumnNames)} :
     \A i \in 1..Len(cols), j \in 1..Len(cols) : cols[i] = cols[j] => i = j}

\* No column.
NoCol == [name |-> "", default |-> "none", backfilled |-> FALSE]
\* The columns handed to BackfillColumn: default "none" stands for no default.
BackfillCols == [name : {"foo", "default"}, default : {"none", "true"}, backfilled : BOOLEAN]

\* A step of a call: a statement for Exec, or the writing of the staged file.
Step(op, cols, col, val, where) ==
  [op |-> op, cols |-> cols, col |-> col, val |-> val, where |-> where]

\* Snowflake's escaping of a column name: a reserved word goes upper-case in
\* double quotes.
EscapedName(name) == IF name = "default" THEN "\"DEFAULT\"" ELSE name

\* PrepareTemporaryTable: CREATE TABLE IF NOT EXISTS when asked to, the staged
\* file, PUT, COPY INTO.
PrepareStepsCopyFirst(args) ==
  (IF args.createTempTable THEN <<Step("CREATE", args.cols, "", "", "")>> ELSE <<>>)
    \o <<Step("file", <<>>, "", "", ""),
         Step("COPY", args.cols, "", "", ""),
         Step("PUT", <<>>, "", "", "")>>
PrepareSteps(args) ==
  (IF args.createTempTable THEN <<Step("CREATE", args.cols, "", "", "")>> ELSE <<>>)
    \o <<Step("file", <<>>, "", "", ""),
         Step("PUT", <<>>, "", "", ""),
         Step("COPY", args.cols, "", "", "")>>

\* Column.ShouldBackfill: a default, and not backfilled yet.
ShouldBackfillAnyDefault(col) == col.default # "none"
ShouldBackfill(col) == col.default # "none" /\ ~col.backfilled

\* BackfillColumn: UPDATE ... SET c = default WHERE c IS NULL, then the
\* COMMENT ON COLUMN marker.
BackfillSteps(args) ==
  IF ShouldBackfill(args.col)
    THEN <<Step("UPDATE", <<>>, args.col.name, args.col.default, EscapedName(args.col.name)),
           Step("COMMENT", <<>>, args.col.name, "{\"backfilled\": true}", "")>>
    ELSE <<>>

\* The steps of the call under way.
StageSteps ==
  IF stOp = "prepare" THEN PrepareSteps(stArgs)
  ELSE IF stOp = "backfill" THEN BackfillSteps(stArgs)
  ELSE <<>>

\* The next step of the call: the store executes the statement, or the staged
\* file is written; a failure ends the call with the error.
StageStep ==
  /\ stErr = "pending" /\ stStep < Len(StageSteps)
  /\ LET step == StageSteps[stStep + 1] IN
       /\ stStep' = stStep + 1
       /\ stExec' = IF step.op = "file" THEN stExec ELSE Append(stExec, step)
       /\ \E failed \in BOOLEAN :
            stErr' = IF ~failed THEN "pending"
                     ELSE IF step.op = "file" THEN "fileFailed" ELSE "execFailed"
  /\ UNCHANGED <<stOp, stArgs, bqVars, tdVars, dvVars, pubsubVars,
                 flushVars, cfgVars>>

\* Every step is done: the call returns nil.
StageReturn ==
  /\ stOp # "none" /\ stErr = "pending" /\ stStep = Len(StageSteps)
  /\ stErr' = "ok"
  /\ UNCHANGED <<stOp, stArgs, stStep, stExec, bqVars, tdVars, dvVars, pubsubVars,
                 flushVars, cfgVars>>

\* No call on the stage store.
StIdle ==
  /\ stOp = "none"
  /\ stArgs = [createTempTable |-> FALSE, cols |-> <<>>, col |-> NoCol]
  /\ stStep = 0 /\ stExec = <<>> /\ stErr = "pending"

\* A call of PrepareTemporaryTable or of BackfillColumn on a fresh store.
StInit ==
  /\ stOp \in {"prepare", "backfill"}
  /\ stArgs \in IF stOp = "prepare"
                  THEN [createTempTable : BOOLEAN, cols : ColumnLists, col : {NoCol}]
                  ELSE [createTempTable : {FALSE}, cols : {<<>>}, col : BackfillCols]
  /\ stStep = 0 /\ stExec = <<>> /\ stErr = "pending"

(***************************************************************************)
(* Column.DefaultValue (design document, sections 3 and 8; default_test.go)*)
(***************************************************************************)
\* The longest default value drawn.
MaxDefaultLen == 2
\* constants.ValidDestinations
ValidDestinations == {"snowflake", "bigquery", "redshift", "s3", "test"}
\* The characters of the default values drawn.
DefaultChars == {"{", "}", "a"}
\* A value that is nil, or a string, as the sequence of its pieces.
NilValue == [nil |-> TRUE, str |-> <<>>]
StrValue(str) == [nil |-> FALSE, str |-> str]
\* The default values drawn: nil and the strings of up to MaxDefaultLen characters.
DefaultValues ==
  {NilValue} \cup {StrValue(str) : str \in UNION {[1..k -> DefaultChars] : k \in 0..MaxDefaultLen}}
\* The kinds of the columns drawn (no ETime and no EDecimal column is drawn).
DefaultKinds == {"String", "Struct", "Boolean"}
\* The argument values drawn: no args, or Escape and DestKind.
DefaultValueArgs ==
  {[nil |-> TRUE, Escape |-> FALSE, DestKind |-> ""]}
    \cup [nil : {FALSE}, Escape : BOOLEAN, DestKind : ValidDestinations]

\* stringutil.Wrap: the value between single quotes.
Wrap(str) == <<"'">> \o str \o <<"'">>

\* Column.DefaultValue(args)
DefaultValueQuotesEverywhere(col, args) ==
  IF args.nil \/ ~args.Escape \/ col.defaultValue.nil THEN col.defaultValue
  ELSE IF col.kind = "Struct"
    THEN IF args.DestKind = "bigquery" THEN StrValue(<<"JSON">> \o Wrap(col.defaultValue.str))
         ELSE IF args.DestKind = "redshift"
           THEN StrValue(<<"JSON_PARSE(">> \o Wrap(col.defaultValue.str) \o <<")">>)
         ELSE StrValue(Wrap(col.defaultValue.str))
  ELSE IF col.kind = "String" THEN StrValue(Wrap(col.defaultValue.str))
  ELSE col.defaultValue
DefaultValue(col, args) ==
  IF args.nil \/ ~args.Escape \/ col.defaultValue.nil THEN col.defaultValue
  ELSE IF col.kind = "Struct"
    THEN IF args.DestKind = "bigquery" THEN StrValue(<<"JSON">> \o Wrap(col.defaultValue.str))
         ELSE IF args.DestKind = "redshift"
           THEN StrValue(<<"JSON_PARSE(">> \o Wrap(col.defaultValue.str) \o <<")">>)
         ELSE IF args.DestKind = "snowflake" THEN StrValue(Wrap(col.defaultValue.str))
         ELSE col.defaultValue
  ELSE IF col.kind = "String" THEN StrValue(Wrap(col.defaultValue.str))
  ELSE col.defaultValue

\* A call of col.DefaultValue(args, nil).
CallDefaultValue ==
  /\ ~dvRes.called
  /\ dvRes' = [called |-> TRUE, val |-> DefaultValue(dvCol, dvArgs)]
  /\ UNCHANGED <<dvCol, dvArgs, bqVars, tdVars, stVars, pubsubVars, flushVars, cfgVars>>

\* No column and no call.
DvIdle ==
  /\ dvCol = [kind |-> "", defaultValue |-> NilValue]
  /\ dvArgs = [nil |-> TRUE, Escape |-> FALSE, DestKind |-> ""]
  /\ dvRes = [called |-> FALSE, val |-> NilValue]

\* A column and the arguments of a call.
DvInit ==
  /\ dvCol \in [kind : DefaultKinds, defaultValue : DefaultValues]
  /\ dvArgs \in DefaultValueArgs
  /\ dvRes = [called |-> FALSE, val |-> NilValue]

(***************************************************************************)
(* Specification of the Pub/Sub consumer                                   *)
(***************************************************************************)
\* The first topic's subscription may exist already, with or without message
\* ordering, or be absent, its topic existing or not; the other topics are new
\* to the broker.
BrokerInit ==
  /\ brokerSub \in [Topics -> {"absent", "ordered", "unordered"}]
  /\ brokerTopic \in [Topics -> BOOLEAN]
  /\ \A t \in Topics : brokerSub[t] # "absent" => brokerTopic[t]
  /\ \A t \in Topics : t # TopicList[1] => (brokerSub[t] = "absent" /\ brokerTopic[t])

PubsubInit ==
  /\ fatal = FALSE /\ cancelled = FALSE
  /\ mainpc = "spawn" /\ spawned = 0
  /\ gpc = [t \in Topics |-> "unspawned"]
  /\ subName = [t \in Topics |-> <<>>]
  /\ BrokerInit
  /\ subOrigin = [t \in Topics |-> "none"]
  /\ createCalls = [t \in Topics |-> 0]
  /\ okey \in [Msgs -> Keys]
  /\ \A m \in Msgs : m = 1 => okey[m] = "k1"
  /\ mst = [t \in Topics |-> [m \in MsgsOf(t) |-> "pending"]]
  /\ res = [t \in Topics |-> [m \in MsgsOf(t) |-> NoRes]]
  /\ signals = [t \in Topics |-> [m \in MsgsOf(t) |-> 0]]
  /\ slept = [t \in Topics |-> [m \in MsgsOf(t) |-> FALSE]]
  /\ cancelSignals = [t \in Topics |-> 0]
  /\ chanCap \in 0..MaxChanCap
  /\ chanLen = 0
  /\ orch = "waiting"
  /\ buffered = {} /\ flushing = {} /\ flushed = {} /\ acked = {}

\* No configuration is under validation.
CfgIdle ==
  cfg = Nil /\ vres = "done" /\ tcres = [list |-> Nil, err |-> "done"] /\ ReadIdle

\* No destination call is running.
DestIdle == BqIdle /\ TdIdle /\ StIdle /\ DvIdle

Init == PubsubInit /\ CfgIdle /\ DestIdle

Next ==
  \/ NewClientFails
  \/ Spawn
  \/ \E t \in Topics : FindOrCreate(t)
  \/ \E t \in Topics : \E m \in MsgsOf(t) : Deliver(t, m)
  \/ \E t \in Topics : \E m \in MsgsOf(t) : Process(t, m)
  \/ \E t \in Topics : \E m \in MsgsOf(t) : Send(t, m)
  \/ \E t \in Topics : \E m \in MsgsOf(t) : Sleep(t, m)
  \/ \E t \in Topics : ReceiveReturns(t)
  \/ \E t \in Topics : ReceiveFails(t)
  \/ WaitReturns
  \/ Cancel
  \/ OrchReceive
  \/ OrchTick
  \/ FlushOk
  \/ FlushErr
  \/ OrchStop

Spec == Init /\ [][Next]_vars

\* StartSubscriber while no message is published to its topics: the client,
\* the goroutines, their subscriptions, Receive returning and wg.Wait.
NextSubscribe ==
  \/ NewClientFails
  \/ Spawn
  \/ \E t \in Topics : FindOrCreate(t)
  \/ \E t \in Topics : ReceiveReturns(t)
  \/ \E t \in Topics : ReceiveFails(t)
  \/ WaitReturns
  \/ Cancel

SpecSubscribe == Init /\ [][NextSubscribe]_vars

(***************************************************************************)
(* Specification of the configuration checks                               *)
(***************************************************************************)
\* The consumer is not running.
PubsubIdle ==
  /\ fatal = FALSE /\ cancelled = FALSE
  /\ mainpc = "idle" /\ spawned = 0
  /\ gpc = [t \in Topics |-> "unspawned"]
  /\ subName = [t \in Topics |-> <<>>]
  /\ brokerSub = [t \in Topics |-> "absent"]
  /\ brokerTopic = [t \in Topics |-> TRUE]
  /\ subOrigin = [t \in Topics |-> "none"]
  /\ createCalls = [t \in Topics |-> 0]
  /\ okey = [m \in Msgs |-> "k1"]
  /\ mst = [t \in Topics |-> [m \in MsgsOf(t) |-> "pending"]]
  /\ res = [t \in Topics |-> [m \in MsgsOf(t) |-> NoRes]]
  /\ signals = [t \in Topics |-> [m \in MsgsOf(t) |-> 0]]
  /\ slept = [t \in Topics |-> [m \in MsgsOf(t) |-> FALSE]]
  /\ cancelSignals = [t \in Topics |-> 0]
  /\ chanCap = 0
  /\ chanLen = 0
  /\ orch = "stopped"
  /\ buffered = {} /\ flushing = {} /\ flushed = {} /\ acked = {}

InitConfig ==
  /\ PubsubIdle /\ DestIdle /\ ReadIdle
  /\ cfg \in Configs
  /\ vres = "pending"
  /\ tcres = [list |-> Nil, err |-> "pending"]

NextConfig ==
  \/ CallValidate
  \/ CallTopicConfigs

SpecConfig == InitConfig /\ [][NextConfig]_vars

(***************************************************************************)
(* Specification of the loading of the configuration file                  *)
(***************************************************************************)
InitReadConfig ==
  /\ PubsubIdle /\ DestIdle
  /\ read \in [file : Files, err : {"pending"}]
  /\ cfg = Nil /\ vres = "done" /\ tcres = [list |-> Nil, err |-> "done"]

NextReadConfig ==
  \/ CallReadFileToConfig
  \/ CallValidate

SpecReadConfig == InitReadConfig /\ [][NextReadConfig]_vars

(***************************************************************************)
(* Specification of BigQuery's PrepareTemporaryTable                       *)
(***************************************************************************)
InitBigQuery == PubsubIdle /\ CfgIdle /\ BqInit /\ TdIdle /\ StIdle /\ DvIdle

NextBigQuery ==
  \/ BQCreateTempTable
  \/ BQNoCreate
  \/ BQCastRow
  \/ BQPutTable
  \/ BQInsertChunk
  \/ BQDone

SpecBigQuery == InitBigQuery /\ [][NextBigQuery]_vars

(***************************************************************************)
(* Specification of the TableData buffer                                   *)
(***************************************************************************)
InitTableData == PubsubIdle /\ CfgIdle /\ BqIdle /\ TdInit /\ StIdle /\ DvIdle

NextTableData == TDInsertRow

SpecTableData == InitTableData /\ [][NextTableData]_vars

(***************************************************************************)
(* Specification of the calls on the Snowflake stage store                 *)
(***************************************************************************)
InitSnowflake == PubsubIdle /\ CfgIdle /\ BqIdle /\ TdIdle /\ StInit /\ DvIdle

NextSnowflake ==
  \/ StageStep
  \/ StageReturn

SpecSnowflake == InitSnowflake /\ [][NextSnowflake]_vars

(***************************************************************************)
(* Specification of the calls of Column.DefaultValue                       *)
(***************************************************************************)
InitDefaultValue == PubsubIdle /\ CfgIdle /\ BqIdle /\ TdIdle /\ StIdle /\ DvInit

NextDefaultValue == CallDefaultValue

SpecDefaultValue == InitDefaultValue /\ [][NextDefaultValue]_vars

(***************************************************************************)
(* Properties of the Pub/Sub consumer (checked under Spec)                 *)
(***************************************************************************)
\* C1: the consumer never acknowledges a message during ingestion: every
\* acknowledged message is one whose row a successful flush has written; the
\* callback returns without acking.
C1_AckOnlyAfterFlush == acked \subseteq flushed

\* C1, its case: a callback has returned, the row of its message waits in the
\* TableData, and the message is not acknowledged.
C1_ReturnedUnacked ==
  \E t \in Topics : \E m \in MsgsOf(t) :
    /\ mst[t][m] = "done" /\ res[t][m].ret
    /\ <<t, m>> \in buffered
    /\ <<t, m>> \notin acked

\* C2: a message for which processMessage returned an error is acknowledged
\* when its callback returns (skipped, not left outstanding for redelivery).
C2_ErrorIsAcked ==
  \A t \in Topics : \A m \in MsgsOf(t) :
    (mst[t][m] = "done" /\ res[t][m].ret /\ res[t][m].err) => <<t, m>> \in acked

\* C3: after the root context is cancelled, a consumer goroutine that has ended
\* has no callback in flight and has sent exactly one value on the flush
\* channel since the cancellation.
C3_OneDrainSignal ==
  \A t \in Topics :
    gpc[t] = "done" => (InFlight(t) = {} /\ cancelSignals[t] = 1)

\* C4: the send of the flush signal cannot block the callback: a callback that
\* has reached flushChan <- true can always complete it, whatever the flush
\* orchestrator is doing.
C4_SendNeverBlocks ==
  \A t \in Topics : \A m \in MsgsOf(t) :
    mst[t][m] = "send" => ENABLED Send(t, m)

\* C5: every subscription a goroutine receives from has message ordering
\* enabled, whether it was created or found.
C5_ReceivedFromIsOrdered ==
  \A t \in Topics : gpc[t] = "receiving" => brokerSub[t] = "ordered"

\* Two messages of one ordering key, in publishing order.
SameKeyPairs(t) ==
  {p \in MsgsOf(t) \X MsgsOf(t) : p[1] < p[2] /\ okey[p[1]] = okey[p[2]]}

SignalsMatch(t, m) ==
  CASE mst[t][m] = "send" -> res[t][m].sf /\ signals[t][m] = 0 /\ ~slept[t][m]
    [] mst[t][m] = "sleep" -> res[t][m].sf /\ signals[t][m] = 1 /\ ~slept[t][m]
    [] mst[t][m] = "done" /\ res[t][m].ret ->
         /\ signals[t][m] = (IF res[t][m].sf THEN 1 ELSE 0)
         /\ slept[t][m] = res[t][m].sf
    [] OTHER -> signals[t][m] = 0 /\ ~slept[t][m]

\* While a callback of a topic is in its pause, the consumer of the topic takes
\* no message.
NoReadWhilePaused ==
  \A t \in Topics :
    (\E m \in MsgsOf(t) : mst[t][m] = "sleep") =>
      \A n \in MsgsOf(t) : mst[t][n] = "pending" => mst'[t][n] = "pending"

C18_OneGoroutinePerTopic ==
  /\ mainpc = "spawn" => spawned = 0 /\ \A t \in Topics : gpc[t] = "unspawned"
  /\ mainpc \in {"wait", "returned"} =>
       /\ spawned = Len(TopicList)
       /\ \A t \in Topics : gpc[t] \in {"start", "receiving", "done"}
  /\ \A t \in Topics :
       (gpc[t] \in {"receiving", "done"} \/ \E m \in MsgsOf(t) : mst[t][m] # "pending")
         => subName[t] = <<"transfer_", t>>
  /\ mainpc = "returned" => \A t \in Topics : gpc[t] = "done"

\* C18 witness: StartSubscriber returned, both goroutines having received from
\* their subscriptions and returned.
C18_ReturnedAfterAll ==
  /\ mainpc = "returned" /\ spawned = 2
  /\ \A t \in Topics : gpc[t] = "done" /\ subName[t] = <<"transfer_", t>>


(***************************************************************************)
(* Properties of findOrCreateSubscription (checked under SpecSubscribe)    *)
(***************************************************************************)
\* What findOrCreateSubscription answers in the current broker state, for every
\* answer of the existence checks and of CreateSubscription: it calls
\* CreateSubscription only for an absent subscription on an existing topic, it
\* returns an existing subscription without creating one, and a failed
\* subscription check, or an absent subscription whose topic is absent or
\* could not be checked, gives an error and no CreateSubscription call.
FindOrCreateAnswers ==
  \A t \in Topics, subErr \in BOOLEAN, topicErr \in BOOLEAN, createErr \in BOOLEAN :
    LET r == findOrCreateSubscription(t, subErr, topicErr, createErr) IN
      /\ (r.made \/ r.calls > 0) =>
           ~subErr /\ brokerSub[t] = "absent" /\ brokerTopic[t] /\ ~topicErr
      /\ r.made => ~r.err /\ r.origin = "created" /\ r.calls = 1
      /\ (~subErr /\ brokerSub[t] # "absent") =>
           ~r.err /\ r.origin = "found" /\ r.calls = 0 /\ ~r.made
      /\ (subErr \/ (brokerSub[t] = "absent" /\ (~brokerTopic[t] \/ topicErr))) =>
           r.err /\ r.origin = "none" /\ r.calls = 0 /\ ~r.made

\* What the calls made so far left behind: CreateSubscription was called for
\* a topic at most once, and only for a topic that exists; a goroutine that
\* found its subscription called it never; one that created its subscription
\* called it once; and the subscription of a topic that does not exist was
\* never created.
FindOrCreateDone ==
  \A t \in Topics :
    /\ createCalls[t] \in {0, 1}
    /\ createCalls[t] = 1 => brokerTopic[t]
    /\ subOrigin[t] = "found" => createCalls[t] = 0 /\ brokerSub[t] # "absent"
    /\ subOrigin[t] = "created" => createCalls[t] = 1 /\ brokerSub[t] = "ordered"
    /\ ~brokerTopic[t] => brokerSub[t] = "absent" /\ subOrigin[t] = "none"
    /\ gpc[t] \in {"receiving", "done"} => subOrigin[t] \in {"found", "created"}

\* C19: findOrCreateSubscription creates a subscription only when it is absent
\* and its topic exists; an existing subscription is returned and
\* CreateSubscription is not called; when the subscription check fails, or the
\* subscription is absent and the topic is absent or its check fails, an error
\* is returned and no subscription is created.
C19_CreateOnlyWhenAbsent == FindOrCreateAnswers /\ FindOrCreateDone

\* C19 witness: one goroutine found its subscription, the other created its
\* own with one CreateSubscription call.
C19_FoundAndCreated ==
  /\ subOrigin["a"] = "found" /\ createCalls["a"] = 0
  /\ subOrigin["b"] = "created" /\ createCalls["b"] = 1 /\ brokerSub["b"] # "absent"

(***************************************************************************)
(* Properties of the configuration checks (checked under SpecConfig)       *)
(***************************************************************************)
\* Validate has returned for a non-nil configuration.
Validated == vres \notin {"pending", "done"} /\ ~cfg.nil

\* C8 as stated: Validate accepts a configuration only if bufferRows lies in
\* 5..30000.
C8_BufferRowsInRange ==
  vres = "ok" =>
    /\ cfg.BufferRows.high = 0
    /\ cfg.BufferRows.low >= 5
    /\ cfg.BufferRows.low <= 30000

\* C8 as amended: Validate accepts a configuration only if bufferRows, taken as
\* an int, is at least 5, and it rejects for bufferRows only such values: there
\* is no upper limit.
C8_BufferRowsAtLeastMin ==
  /\ vres = "ok" => (cfg.BufferRows.high = 0 /\ cfg.BufferRows.low >= 5)
  /\ vres = "bufferRows" => (cfg.BufferRows.high = 1 \/ cfg.BufferRows.low < 5)

\* C8, its case: a configuration with more than 30000 bufferRows went through
\* Validate and was accepted.
C8_LargeBufferAccepted ==
  vres = "ok" /\ cfg.BufferRows.high = 0 /\ cfg.BufferRows.low > 30000

\* C9: Validate accepts a configuration only if flushIntervalSeconds lies in
\* 5..21600, both ends accepted, and flushSizeKb is positive; a value outside
\* makes Validate return an error, and these two checks reject nothing else.
C9_FlushSettingsChecked ==
  Validated =>
    /\ vres = "ok" =>
         /\ cfg.FlushSizeKb > 0
         /\ cfg.FlushIntervalSeconds >= 5 /\ cfg.FlushIntervalSeconds <= 21600
    /\ (cfg.FlushSizeKb <= 0 \/ cfg.FlushIntervalSeconds < 5 \/ cfg.FlushIntervalSeconds > 21600)
         => vres \in {"flushSize", "flushInterval"}
    /\ vres = "flushSize" => cfg.FlushSizeKb <= 0
    /\ vres = "flushInterval" =>
         (cfg.FlushIntervalSeconds < 5 \/ cfg.FlushIntervalSeconds > 21600)

\* C9, its case: a configuration whose flush interval is the upper end of the
\* range went through Validate and was accepted.
C9_UpperEndAccepted ==
  vres = "ok" /\ cfg.FlushIntervalSeconds = 21600 /\ cfg.FlushSizeKb > 0

\* The queues the service knows.
KnownQueue(c) == c.Queue \in {"kafka", "pubsub"}

\* C10 as stated: Validate returns an error for every configuration whose
\* queue is neither kafka nor pubsub.
C10_UnknownQueueRejected ==
  (Validated /\ ~KnownQueue(cfg)) => vres # "ok"

\* What Validate can answer when the queue is neither kafka nor pubsub.
NonQueueAnswers ==
  {"ok", "flushSize", "flushInterval", "bufferRows", "output",
   "redshiftOutput", "redshiftNil", "redshiftEmpty", "redshiftPort"}

\* C10 as amended: Validate does not check the queue itself; with a queue that
\* is neither kafka nor pubsub it checks no queue block, so it fails only on
\* the other settings, and it is TopicConfigs that returns an error (and no
\* list) for such a configuration.
C10_UnknownQueueLeftToTopicConfigs ==
  (~cfg.nil /\ ~KnownQueue(cfg)) =>
    /\ vres \in NonQueueAnswers \cup {"pending"}
    /\ tcres.err # "pending" => (tcres.err # "ok" /\ tcres.list = Nil)
    /\ (vres = "ok" /\ tcres.err # "pending") => tcres.err = "unsupportedQueue"

\* C10, its case: a configuration with an unknown queue passed Validate, and
\* TopicConfigs refused it.
C10_UnknownQueuePassedValidate ==
  /\ vres = "ok" /\ ~KnownQueue(cfg)
  /\ tcres.err = "unsupportedQueue" /\ tcres.list = Nil

(***************************************************************************)
(* Properties of BigQuery's PrepareTemporaryTable (checked under           *)
(* SpecBigQuery)                                                           *)
(***************************************************************************)
\* castColVal failed for some column of some row the call has reached.
CastFailed ==
  \E r \in 1..Len(bqOutcomes) : \E c \in 1..Len(Cols) : bqOutcomes[r][c] = "err"

\* The call has done op.
Logged(op) == \E i \in 1..Len(bqLog) : bqLog[i] = op

\* C11: a cast error on any column value of any row aborts the whole
\* operation: an error is returned, putTable is never invoked and no row of
\* the batch is loaded into the temporary table.
C11_CastErrorAborts ==
  CastFailed =>
    /\ bqpc = "returned" /\ bqErr = "castFailed"
    /\ ~Logged("put") /\ ~Logged("insert")
    /\ bqTable.loaded = <<>>

\* C11, its case: the first row was cast, then the cast of the last column of
\* the second row failed.
C11_SecondRowFails ==
  /\ Len(bqOutcomes) = 2 /\ Len(bqRows) = 1
  /\ bqOutcomes[2][1] = "val" /\ bqOutcomes[2][Len(Cols)] = "err"
  /\ bqpc = "returned"

\* The places of the dots in a name.
Dots(name) == {i \in 1..Len(name) : name[i] = "."}
\* What follows the second dot of a name that has two.
AfterSecondDot(name) ==
  LET second == CHOOSE i \in Dots(name) :
                  Cardinality({j \in Dots(name) : j < i}) = 1
  IN SubSeq(name, second + 1, Len(name))

\* C15: for a name of at least three dot-separated parts tableRelName returns
\* the parts from the third onward, joined by dots, and no error; for a name
\* of fewer parts it returns an error, and putTable then loads nothing.
C15_RelNameFromThirdPart ==
  LET name == bqArgs.tempTableName
      r == tableRelName(name)
  IN /\ Cardinality(Dots(name)) >= 2 => (~r.err /\ r.name = AfterSecondDot(name))
     /\ Cardinality(Dots(name)) < 2 => r.err
     /\ (Logged("put") /\ Cardinality(Dots(name)) < 2) =>
          (bqErr = "tableName" /\ ~Logged("insert") /\ bqTable.loaded = <<>>)
     /\ (Logged("put") /\ Cardinality(Dots(name)) >= 2) =>
          (bqErr # "tableName" /\ bqTable.rel = AfterSecondDot(name))

\* C15, its case: rows were loaded into the table t.t of the name t.t.t.t.
C15_FourPartsLoaded ==
  /\ bqArgs.tempTableName = <<"t", ".", "t", ".", "t", ".", "t">>
  /\ bqTable.rel = <<"t", ".", "t">>
  /\ bqErr = "ok" /\ bqTable.loaded # <<>>

\* C20: with createTempTable the temporary table is created before any value
\* is cast or any row loaded, and a failed creation returns an error with
\* nothing loaded; without it no create statement is issued.
C20_CreateComesFirst ==
  /\ bqArgs.createTempTable =>
       /\ bqLog # <<>> => bqLog[1] = "create"
       /\ \A i \in 2..Len(bqLog) : bqLog[i] # "create"
       /\ (Logged("cast") \/ Logged("put")) => bqTable.created
       /\ bqErr = "createFailed" <=> (Logged("create") /\ ~bqTable.created)
       /\ bqErr = "createFailed" =>
            (bqpc = "returned" /\ bqLog = <<"create">> /\ bqTable.loaded = <<>>)
  /\ ~bqArgs.createTempTable =>
       (~Logged("create") /\ ~bqTable.created /\ bqErr # "createFailed")

\* C20, its case: the table was created, then values were cast and the rows
\* loaded.
C20_CreatedThenLoaded ==
  /\ bqArgs.createTempTable /\ bqTable.created
  /\ bqLog[1] = "create" /\ Logged("cast")
  /\ bqErr = "ok" /\ Len(bqTable.loaded) = bqArgs.nRows /\ bqArgs.nRows > 0

(***************************************************************************)
(* Properties of the TableData buffer (checked under SpecTableData)        *)
(***************************************************************************)
\* The keys inserted so far.
InsertedKeys == {tdInserts[i].pk : i \in 1..Len(tdInserts)}
\* The last InsertRow call made with a key.
LastInsert(pk) ==
  LET last == CHOOSE i \in 1..Len(tdInserts) :
                /\ tdInserts[i].pk = pk
                /\ \A j \in (i + 1)..Len(tdInserts) : tdInserts[j].pk # pk
  IN tdInserts[last]

\* C12: in Replication mode a TableData holds at most one row per primary
\* key: after any sequence of InsertRow calls NumberOfRows is the number of
\* distinct keys inserted, and the row stored for a key is that of the latest
\* insert with the key.
C12_OneRowPerKey ==
  tdMode = "Replication" =>
    /\ NumberOfRows = Cardinality(InsertedKeys)
    /\ \A pk \in InsertedKeys :
         \E i \in 1..Len(tdRows) :
           /\ tdRows[i] = LastInsert(pk)
           /\ \A j \in 1..Len(tdRows) : tdRows[j].pk = pk => j = i

\* C12, its case: three inserts, one key twice and with different rows, left
\* two rows.
C12_KeyInsertedTwice ==
  /\ tdMode = "Replication" /\ Len(tdInserts) = 3 /\ NumberOfRows = 2
  /\ tdInserts[1].pk = tdInserts[3].pk /\ tdInserts[1].row # tdInserts[3].row


(***************************************************************************)
(* Properties of the Snowflake stage store (checked under SpecSnowflake)   *)
(***************************************************************************)
\* The kinds of the statements executed so far, in order.
ExecOps == [i \in 1..Len(stExec) |-> stExec[i].op]
\* s is the beginning of t.
IsPrefix(s, t) == Len(s) <= Len(t) /\ \A i \in 1..Len(s) : s[i] = t[i]

\* C13: PrepareTemporaryTable with createTempTable executes, in this order,
\* CREATE TABLE IF NOT EXISTS, PUT and COPY INTO, and without it PUT and then
\* COPY INTO and no CREATE TABLE; a call that returns nil has executed exactly
\* these three (two) statements, and CREATE and COPY list the in-memory columns
\* in their order.
C13_ExecOrder ==
  stOp = "prepare" =>
    LET want == IF stArgs.createTempTable THEN <<"CREATE", "PUT", "COPY">>
                                          ELSE <<"PUT", "COPY">> IN
      /\ IsPrefix(ExecOps, want)
      /\ stErr = "ok" => ExecOps = want
      /\ \A i \in 1..Len(stExec) :
           stExec[i].op \in {"CREATE", "COPY"} => stExec[i].cols = stArgs.cols

\* C13 witness: a call with createTempTable on three columns returned nil after
\* its three statements.
C13_ThreeStatements ==
  /\ stOp = "prepare" /\ stArgs.createTempTable /\ stErr = "ok"
  /\ Len(stArgs.cols) = 3 /\ Len(stExec) = 3

\* C14: BackfillColumn on a column with a default that is not backfilled yet
\* executes UPDATE ... SET c = default WHERE c IS NULL and then the COMMENT ON
\* COLUMN marker, exactly these two when it returns nil; on a column without a
\* default or already backfilled it executes nothing and returns no error.
C14_BackfillStatements ==
  stOp = "backfill" =>
    LET c == stArgs.col IN
      IF c.default # "none" /\ ~c.backfilled
        THEN /\ IsPrefix(ExecOps, <<"UPDATE", "COMMENT">>)
             /\ stErr = "ok" => ExecOps = <<"UPDATE", "COMMENT">>
             /\ \A i \in 1..Len(stExec) :
                  /\ stExec[i].col = c.name
                  /\ stExec[i].op = "UPDATE" =>
                       stExec[i].val = c.default /\ stExec[i].where = EscapedName(c.name)
                  /\ stExec[i].op = "COMMENT" => stExec[i].val = "{\"backfilled\": true}"
        ELSE /\ stExec = <<>>
             /\ stErr \in {"pending", "ok"}
             /\ stErr = "pending" => ENABLED StageReturn

\* C14 witness: the reserved-word column was backfilled with both statements.
C14_BackfilledReservedName ==
  /\ stOp = "backfill" /\ stErr = "ok" /\ Len(stExec) = 2
  /\ stArgs.col.name = "default" /\ stExec[1].where = "\"DEFAULT\""


(***************************************************************************)
(* Properties of Column.DefaultValue (checked under SpecDefaultValue)      *)
(***************************************************************************)
\* C17: DefaultValue returns nil for a nil default on every destination, the
\* raw default when args are nil or Escape is false, and with Escape a Struct
\* default as JSON'...' for BigQuery, JSON_PARSE('...') for Redshift, '...' for
\* Snowflake and the raw value for every other valid destination.
C17_DefaultValue ==
  dvRes.called =>
    LET raw == dvCol.defaultValue IN
      /\ raw.nil => dvRes.val.nil
      /\ ~raw.nil /\ (dvArgs.nil \/ ~dvArgs.Escape) => dvRes.val = raw
      /\ ~raw.nil /\ ~dvArgs.nil /\ dvArgs.Escape /\ dvCol.kind = "Struct" =>
           /\ ~dvRes.val.nil
           /\ dvArgs.DestKind = "bigquery" =>
                dvRes.val.str = <<"JSON", "'">> \o raw.str \o <<"'">>
           /\ dvArgs.DestKind = "redshift" =>
                dvRes.val.str = <<"JSON_PARSE(", "'">> \o raw.str \o <<"'", ")">>
           /\ dvArgs.DestKind = "snowflake" =>
                dvRes.val.str = <<"'">> \o raw.str \o <<"'">>
           /\ dvArgs.DestKind \in ValidDestinations \ {"bigquery", "redshift", "snowflake"} =>
                dvRes.val.str = raw.str

\* C17 witness: the Struct default {} was escaped for Redshift.
C17_RedshiftJsonParse ==
  /\ dvRes.called /\ dvCol.kind = "Struct" /\ ~dvArgs.nil /\ dvArgs.Escape
  /\ dvArgs.DestKind = "redshift" /\ dvCol.defaultValue = StrValue(<<"{", "}">>)
  /\ dvRes.val = StrValue(<<"JSON_PARSE(", "'", "{", "}", "'", ")">>)


(***************************************************************************)
(* Properties of Config.TopicConfigs (checked under SpecConfig)            *)
(***************************************************************************)
\* The topic configs of the block of the configured queue.
QueueTopicConfigs(c) ==
  IF c.Queue = "kafka" THEN c.Kafka.TopicConfigs ELSE c.Pubsub.TopicConfigs

\* C22: TopicConfigs returns a list only for a configuration that passes
\* Validate: with a nil error the list is that of the configured queue
\* (kafka's or pubsub's), non-empty and with every entry valid; when Validate
\* fails, or the queue is neither kafka nor pubsub, the list is nil and the
\* error is not; a nil list never comes with a nil error.
C22_ListOnlyWhenValid ==
  tcres.err \notin {"pending", "done"} =>
    /\ tcres.err = "ok" =>
         /\ ~cfg.nil /\ Validate(cfg) = "ok" /\ cfg.Queue \in {"kafka", "pubsub"}
         /\ ~tcres.list.nil
         /\ tcres.list.items = QueueTopicConfigs(cfg)
         /\ Len(tcres.list.items) > 0
         /\ \A i \in 1..Len(tcres.list.items) : tcres.list.items[i].valid
    /\ (Validate(cfg) # "ok" \/ cfg.Queue \notin {"kafka", "pubsub"}) =>
         tcres.list.nil /\ tcres.err # "ok"
    /\ vres \notin {"pending", "done", "ok"} => tcres.list.nil /\ tcres.err = vres
    /\ ~(tcres.list.nil /\ tcres.err = "ok")

\* C22 witness: a valid pubsub configuration got its one topic config back,
\* the kafka block being nil.
C22_PubsubListReturned ==
  /\ tcres.err = "ok" /\ ~cfg.nil /\ cfg.Queue = "pubsub" /\ cfg.Kafka.nil
  /\ ~tcres.list.nil /\ Len(tcres.list.items) = 1 /\ vres = "ok"


(***************************************************************************)
(* Properties of readFileToConfig (checked under SpecReadConfig)           *)
(***************************************************************************)
\* readFileToConfig has returned a config.
ReadOk == read.err = "ok"

\* C21: a file that leaves flushIntervalSeconds, bufferRows or flushSizeKb at
\* zero gets 10, 30000 and 25600 (and an empty queue becomes kafka), and
\* Validate's flushSizeKb, flushIntervalSeconds and bufferRows checks reject
\* none of these defaults; what the file gives as non-zero is left unchanged.
C21_DefaultsPassFlushChecks ==
  ReadOk =>
    LET f == read.file.parsed IN
      /\ ~cfg.nil
      /\ cfg.FlushIntervalSeconds = (IF f.FlushIntervalSeconds = 0 THEN 10 ELSE f.FlushIntervalSeconds)
      /\ cfg.BufferRows =
           (IF f.BufferRows = [high |-> 0, low |-> 0] THEN [high |-> 0, low |-> 30000]
                                                      ELSE f.BufferRows)
      /\ cfg.FlushSizeKb = (IF f.FlushSizeKb = 0 THEN 25600 ELSE f.FlushSizeKb)
      /\ cfg.Queue = (IF f.Queue = "" THEN "kafka" ELSE f.Queue)
      /\ cfg.Output = f.Output /\ cfg.Redshift = f.Redshift
      /\ cfg.Kafka = f.Kafka /\ cfg.Pubsub = f.Pubsub
      /\ f.FlushSizeKb = 0 => ~FlushSizeInvalid(cfg) /\ vres # "flushSize"
      /\ f.FlushIntervalSeconds = 0 => ~FlushIntervalInvalid(cfg) /\ vres # "flushInterval"
      /\ f.BufferRows = [high |-> 0, low |-> 0] => ~BufferRowsInvalid(cfg) /\ vres # "bufferRows"

\* C21 witness: a file without flush rules and without a queue was read, and
\* Validate accepted the config with the four defaults.
C21_AllDefaultsAccepted ==
  /\ ReadOk /\ vres = "ok"
  /\ read.file.parsed.FlushIntervalSeconds = 0 /\ read.file.parsed.FlushSizeKb = 0
  /\ read.file.parsed.BufferRows = [high |-> 0, low |-> 0] /\ read.file.parsed.Queue = ""
  /\ cfg.FlushIntervalSeconds = 10 /\ cfg.FlushSizeKb = 25600
  /\ cfg.BufferRows.low = 30000 /\ cfg.Queue = "kafka"

====
